---- MODULE Spec2Model ----
(***************************************************************************)
(* Model of ParallelTreeSearch<T> (src/include/paralleltreesearch.hpp).    *)
(*                                                                         *)
(* One caller thread runs search(); search() starts threadCount worker     *)
(* threads that run worker_loop().  Every access to a std::atomic and      *)
(* every critical section of the mutex mx is one atomic step; the code     *)
(* between two such accesses is thread-local and is folded into the step   *)
(* that precedes it.  Inside a critical section the code reads only the    *)
(* queue (protected by mx) and the flags stop and found, which only go     *)
(* from false to true within a run, and inflight == 0, which stays true    *)
(* once true, so evaluating the section at one instant loses no outcome.   *)
(* The memory model is sequentially consistent.                            *)
(*                                                                         *)
(* std::condition_variable::wait(lk, pred) is "while (!pred()) wait(lk)":  *)
(* the predicate is evaluated (with mx held) in one step and the thread    *)
(* blocks in the next; stores and notifications made without mx can fall   *)
(* between the two, critical sections of mx cannot.                        *)
(***************************************************************************)
EXTENDS Integers, Sequences, FiniteSets, TLC

\* ---------------------------------------------------------------- constants
PAR_CUTOFF_DEPTH == 4

MAX_PAR_CHILDREN == 2

\* Largest threadCount the engine is constructed with.
MaxThreads == 2

\* nullptr
NULL == 0

\* A shared_ptr whose pointer and control block were written by two
\* unsynchronised assignments (the outcome of a data race on resultNode).
Torn == -1

\* A value no node of any tree carries.
Absent == 15

\* The trees handed to search(): children lists and data, indexed by node.
\* Node 1 is the root.  The first is a chain with one node per depth 0..5, all
\* values distinct.  The second has a root with three children (one more than
\* MAX_PAR_CHILDREN), the last with two children of its own, and the value 7
\* on the nodes 2, 3 and 6.
Trees ==
  << [children |-> << <<2>>, <<3>>, <<4>>, <<5>>, <<6>>, <<>> >>,
      data     |-> <<1, 2, 3, 4, 5, 6>>],
     [children |-> << <<2, 3, 4>>, <<5>>, <<>>, <<6, 7>>, <<>>, <<>>, <<>> >>,
      data     |-> <<1, 7, 7, 4, 5, 7, 8>>] >>

Workers == 1..MaxThreads

\* Largest number of threads a ThreadPool is constructed with.
MaxPoolThreads == 2

\* Number of jobs handed to ThreadPool::enqueue.
MaxJobs == 2

PoolWorkers == 1..MaxPoolThreads

Jobs == 1..MaxJobs

\* ---------------------------------------------------------------- state
VARIABLES
  children,      \* TreeNode::children, per node
  data,          \* TreeNode::data, per node
  visited,       \* TreeNode::visited, per node
  threadCount,   \* ParallelTreeSearch::threadCount
  tasks,         \* ParallelTreeSearch::tasks (deque, back = end of the sequence)
  stop,          \* ParallelTreeSearch::stop
  found,         \* ParallelTreeSearch::found
  inflight,      \* ParallelTreeSearch::inflight
  nodesVisited,  \* ParallelTreeSearch::nodesVisited
  resultNode,    \* ParallelTreeSearch::resultNode
  writers,       \* workers in the middle of "resultNode = node"
  raced,         \* two such assignments have overlapped
  callerPc,      \* position of the thread that calls search()
  root,          \* argument of the current search() call
  target,        \* argument of the current search() call
  retval,        \* value returned by the last search() call
  nworkers,      \* ParallelTreeSearch::workers.size()
  wk,            \* per worker thread: position and locals of worker_loop
  visits,        \* history: per node, how often nodesVisited was incremented for it
  resultWrites,  \* history: assignments to resultNode completed in this run
  lateVisits,    \* history: per worker, nodesVisited increments made while found was true
  leftover,      \* history: the reset of this call overwrote an unfinished run
  created,       \* history: per node, the depths of the tasks pushed for it in this run
  numThreads,    \* argument of the constructor ParallelTreeSearch(numThreads)
  poolTasks,     \* ThreadPool::tasks (queue, front = head of the sequence)
  poolStop,      \* ThreadPool::stop
  available_threads, \* ThreadPool::available_threads
  maxThreads,    \* ThreadPool::maxThreads
  activeTasks,   \* ThreadPool::activeTasks
  pw,            \* per pool thread: position in the worker lambda and its task
  producer,      \* the thread that calls enqueue(): position and job in hand
  ownerPc,       \* the thread that destroys the pool: position in ~ThreadPool
  accepted,      \* history: jobs whose enqueue returned normally, in order
  rejected,      \* history: jobs whose enqueue threw
  dequeued,      \* history: jobs taken from the queue, in order
  executed       \* history: per job, how often task() ran to completion

treeVars == <<children, data, visited>>

sharedVars == <<tasks, stop, found, inflight, nodesVisited, resultNode, writers, raced>>

callerVars == <<callerPc, root, target, retval, nworkers, threadCount, numThreads>>

histVars == <<visits, resultWrites, lateVisits, leftover>>

\* The state of ParallelTreeSearch and of the thread that uses it.
engineVars == <<treeVars, sharedVars, callerVars, wk, histVars, created>>

\* The state of ThreadPool and of the threads that use it.
poolVars == <<poolTasks, poolStop, available_threads, maxThreads, activeTasks, pw,
              producer, ownerPc, accepted, rejected, dequeued, executed>>

vars == <<engineVars, poolVars>>

Nodes == DOMAIN children

NoWorker == [pc |-> "none", node |-> NULL, depth |-> 0, i |-> 0, spawned |-> 0, stack |-> <<>>]

\* Task{node, depth}
Task(n, d) == [node |-> n, depth |-> d]

Targets == {data[n] : n \in Nodes} \cup {Absent}

\* A pool thread that does not exist, or holds no task.
NoPoolWorker == [pc |-> "none", task |-> NULL]

\* No ThreadPool has been constructed.
NoPool ==
  /\ poolTasks = <<>>
  /\ poolStop = FALSE
  /\ available_threads = 0
  /\ maxThreads = 0
  /\ activeTasks = 0
  /\ pw = [w \in PoolWorkers |-> NoPoolWorker]
  /\ producer = [pc |-> "none", job |-> NULL]
  /\ ownerPc = "none"
  /\ accepted = <<>>
  /\ rejected = {}
  /\ dequeued = <<>>
  /\ executed = [j \in Jobs |-> 0]

\* Lines 157-158: the thread count the constructor keeps for the argument n;
\* 0 is replaced by 1 and nothing is thrown.
ThreadCountFor(n) == IF n # 0 THEN n ELSE 1

\* The engine after ParallelTreeSearch(n), n drawn from ns, next to a tree
\* drawn from ts.
EngineNew(ts, ns) ==
  /\ \E t \in ts :
       /\ children = Trees[t].children
       /\ data = Trees[t].data
       /\ visited = [n \in DOMAIN Trees[t].children |-> FALSE]
       /\ visits = [n \in DOMAIN Trees[t].children |-> 0]
       /\ created = [n \in DOMAIN Trees[t].children |-> <<>>]
  /\ numThreads \in ns
  /\ threadCount = ThreadCountFor(numThreads)
  /\ tasks = <<>>
  /\ stop = FALSE
  /\ found = FALSE
  /\ inflight = 0
  /\ nodesVisited = 0
  /\ resultNode = NULL
  /\ writers = {}
  /\ raced = FALSE
  /\ callerPc = "idle"
  /\ root = NULL
  /\ target = Absent
  /\ retval = NULL
  /\ nworkers = 0
  /\ wk = [w \in Workers |-> NoWorker]
  /\ resultWrites = 0
  /\ lateVisits = [w \in Workers |-> 0]
  /\ leftover = FALSE

Init == EngineNew(DOMAIN Trees, 0..MaxThreads) /\ NoPool

\* ---------------------------------------------------------------- helpers
Set(w, rec) == [wk EXCEPT ![w] = rec]

\* A worker between two tasks: its locals are dead.
At(label) == [NoWorker EXCEPT !.pc = label]

\* Threads blocked inside cv.wait; 0 is the caller of search().
Blocked(f) == {w \in Workers : f[w].pc = "blocked"}
                \cup (IF callerPc = "blocked" THEN {0} ELSE {})

\* The history of pushed tasks after a task for node n with depth d is pushed.
Created(n, d) == [created EXCEPT ![n] = Append(@, d)]

\* One blocked thread t leaves cv.wait and goes back to its predicate.
Woken(f, t) == [w \in Workers |-> IF w = t /\ f[w].pc = "blocked"
                                    THEN [f[w] EXCEPT !.pc = "lock"] ELSE f[w]]

\* cv.notify_all() issued by a thread whose own step leaves the workers as f.
NotifyAll(f) ==
  /\ wk' = [w \in Workers |-> IF f[w].pc = "blocked"
                                THEN [f[w] EXCEPT !.pc = "lock"] ELSE f[w]]
  /\ callerPc' = IF callerPc = "blocked" THEN "wait" ELSE callerPc

\* cv.notify_one(): wakes one blocked thread, if there is one.
NotifyOne(f) ==
  IF Blocked(f) = {}
    THEN wk' = f /\ callerPc' = callerPc
    ELSE \E t \in Blocked(f) :
           /\ wk' = Woken(f, t)
           /\ callerPc' = IF t = 0 THEN "wait" ELSE callerPc

\* nodesVisited.fetch_add(1) for node n by worker w.
CountVisit(w, n) ==
  /\ nodesVisited' = nodesVisited + 1
  /\ visits' = [visits EXCEPT ![n] = @ + 1]
  /\ lateVisits' = [lateVisits EXCEPT ![w] = IF found THEN @ + 1 ELSE @]

\* "resultNode = node" is not atomic: it begins here ...
BeginWrite(w) ==
  /\ writers' = writers \cup {w}
  /\ raced' = (raced \/ writers # {})

\* ... and ends here; when it overlapped another assignment the shared_ptr
\* is left holding this node or a mix of the two.
EndWrite(w, n) ==
  /\ resultNode' \in (IF raced THEN {n, Torn} ELSE {n})
  /\ writers' = writers \ {w}
  /\ raced' = (raced /\ writers \ {w} # {})
  /\ resultWrites' = resultWrites + 1

\* The frame on top of the stack returns from sequential_search: its caller's
\* for loop moves to the next child, and returns in turn when there is none.
RECURSIVE SeqReturn(_)
SeqReturn(stack) ==
  LET rest == SubSeq(stack, 1, Len(stack) - 1) IN
  IF rest = <<>> THEN <<>>
  ELSE LET top == rest[Len(rest)] IN
       IF top.i < Len(children[top.n])
         THEN [rest EXCEPT ![Len(rest)].i = top.i + 1]
         ELSE SeqReturn(rest)

\* Worker w after the top frame returned: in the caller's loop, or back in
\* worker_loop (line 139 after the call at line 138, line 149 after line 144).
Returned(w) ==
  LET s == SeqReturn(wk[w].stack) IN
  IF s # <<>> THEN [wk[w] EXCEPT !.stack = s, !.pc = "seq_loop"]
  ELSE IF wk[w].i = 0 THEN [wk[w] EXCEPT !.stack = s, !.pc = "finish"]
  ELSE [wk[w] EXCEPT !.stack = s, !.pc = "spawn_after"]

\* Mutant of NextChild: the loop ends once MAX_PAR_CHILDREN children were
\* spawned, and the remaining children are never searched.
NextChild_DropRest(rec) ==
  IF rec.i < Len(children[rec.node]) /\ rec.spawned < MAX_PAR_CHILDREN
    THEN [rec EXCEPT !.i = rec.i + 1, !.pc = "spawn_loop"]
    ELSE [rec EXCEPT !.pc = "finish"]

\* The for loop of worker_loop moves to the next child, or ends.
NextChild(rec) ==
  IF rec.i < Len(children[rec.node])
    THEN [rec EXCEPT !.i = rec.i + 1, !.pc = "spawn_loop"]
    ELSE [rec EXCEPT !.pc = "finish"]

SeqTop(w) == wk[w].stack[Len(wk[w].stack)]

\* mx can be taken: every critical section is one step, except that a thread
\* whose wait predicate was false holds mx until it blocks.
MutexFree == callerPc # "park" /\ \A w \in Workers : wk[w].pc # "park"

\* ---------------------------------------------------------------- worker_loop
\* Lines 90-94: the drain check at the top of the loop: leave when found is
\* set and nothing is in flight.
LoopTop(w) ==
  /\ wk[w].pc = "top"
  /\ wk' = Set(w, At(IF found /\ inflight = 0 THEN "done" ELSE "lock"))
  /\ UNCHANGED <<poolVars, created, treeVars, sharedVars, callerVars, histVars>>

\* The predicate of the wait at lines 99-101.
WorkerPred == stop \/ found \/ tasks # <<>>

\* Mutant of WaitOrPop: the task at the back is copied, pop_back is missing.
WaitOrPop_Peek(w) ==
  /\ wk[w].pc = "lock"
  /\ MutexFree
  /\ IF ~WorkerPred
       THEN wk' = Set(w, At("park")) /\ tasks' = tasks
     ELSE IF stop
       THEN wk' = Set(w, At("done")) /\ tasks' = tasks
     ELSE IF tasks = <<>>
       THEN /\ wk' = Set(w, At(IF found /\ inflight = 0 THEN "done" ELSE "top"))
            /\ tasks' = tasks
     ELSE /\ wk' = Set(w, [At("exec_check") EXCEPT
                              !.node = tasks[Len(tasks)].node,
                              !.depth = tasks[Len(tasks)].depth])
          /\ tasks' = tasks
  /\ UNCHANGED <<poolVars, created, treeVars, stop, found, inflight, nodesVisited, resultNode,
                 writers, raced, callerVars, histVars>>

\* Lines 98-109 with mx held: the predicate is false, the worker is about to
\* block; or it is true and the worker leaves, loops or pops the back task.
WaitOrPop(w) ==
  /\ wk[w].pc = "lock"
  /\ MutexFree
  /\ IF ~WorkerPred
       THEN wk' = Set(w, At("park")) /\ tasks' = tasks
     ELSE IF stop
       THEN wk' = Set(w, At("done")) /\ tasks' = tasks
     ELSE IF tasks = <<>>
       THEN /\ wk' = Set(w, At(IF found /\ inflight = 0 THEN "done" ELSE "top"))
            /\ tasks' = tasks
     ELSE /\ wk' = Set(w, [At("exec_check") EXCEPT
                              !.node = tasks[Len(tasks)].node,
                              !.depth = tasks[Len(tasks)].depth])
          /\ tasks' = SubSeq(tasks, 1, Len(tasks) - 1)
  /\ UNCHANGED <<poolVars, created, treeVars, stop, found, inflight, nodesVisited, resultNode,
                 writers, raced, callerVars, histVars>>

\* cv.wait releases mx and blocks (the predicate was false when evaluated).
WorkerBlock(w) ==
  /\ wk[w].pc = "park"
  /\ wk' = Set(w, At("blocked"))
  /\ UNCHANGED <<poolVars, created, treeVars, sharedVars, callerVars, histVars>>

\* Mutant of ExecCheck: a popped task is executed without looking at found.
ExecCheck_NoCancel(w) ==
  /\ wk[w].pc = "exec_check"
  /\ wk' = Set(w, [wk[w] EXCEPT !.pc = "visit"])
  /\ UNCHANGED <<poolVars, created, treeVars, sharedVars, callerVars, histVars>>

\* Line 112: a task popped after found was set is discarded.
ExecCheck(w) ==
  /\ wk[w].pc = "exec_check"
  /\ wk' = Set(w, [wk[w] EXCEPT !.pc = IF found THEN "discard" ELSE "visit"])
  /\ UNCHANGED <<poolVars, created, treeVars, sharedVars, callerVars, histVars>>

\* Lines 113 and 149: inflight.fetch_sub(1); the thread that takes it from 1
\* to 0 goes on to notify.
TaskDone(w) ==
  /\ wk[w].pc \in {"discard", "finish"}
  /\ inflight' = inflight - 1
  /\ wk' = Set(w, At(IF inflight = 1 THEN "notify_done" ELSE "top"))
  /\ UNCHANGED <<poolVars, created, treeVars, tasks, stop, found, nodesVisited, resultNode,
                 writers, raced, callerVars, histVars>>

\* Lines 114 and 151: cv.notify_all() after the last task.
NotifyDone(w) ==
  /\ wk[w].pc = "notify_done"
  /\ NotifyAll(Set(w, At("top")))
  /\ UNCHANGED <<poolVars, created, treeVars, sharedVars, root, target, retval, nworkers,
                 threadCount, numThreads, histVars>>

\* Mutant of Visit: the worker marks the node it visits (TreeNode::markedVisited).
Visit_MarkVisited(w) ==
  /\ wk[w].pc = "visit"
  /\ IF wk[w].node = NULL
       THEN UNCHANGED <<nodesVisited, visits, lateVisits, visited>>
       ELSE /\ CountVisit(w, wk[w].node)
            /\ visited' = [visited EXCEPT ![wk[w].node] = TRUE]
  /\ wk' = Set(w,
       IF wk[w].node = NULL THEN [wk[w] EXCEPT !.pc = "finish"]
       ELSE IF data[wk[w].node] = target THEN [wk[w] EXCEPT !.pc = "write"]
       ELSE IF children[wk[w].node] = <<>> THEN [wk[w] EXCEPT !.pc = "finish"]
       ELSE IF wk[w].depth < PAR_CUTOFF_DEPTH
         THEN [wk[w] EXCEPT !.pc = "spawn_loop", !.i = 1, !.spawned = 0]
       ELSE [wk[w] EXCEPT !.pc = "seq_entry",
                          !.stack = << [n |-> wk[w].node, i |-> 0] >>])
  /\ UNCHANGED <<poolVars, created, children, data, tasks, stop, found, inflight,
                 resultNode, writers, raced, callerVars, resultWrites, leftover>>

\* Lines 119-146: a task without a node is skipped; otherwise the node is
\* counted and compared; a node with children is expanded below the cutoff and
\* searched sequentially from the cutoff on (line 144 passes the node itself).
Visit(w) ==
  /\ wk[w].pc = "visit"
  /\ IF wk[w].node = NULL
       THEN UNCHANGED <<nodesVisited, visits, lateVisits>>
       ELSE CountVisit(w, wk[w].node)
  /\ wk' = Set(w,
       IF wk[w].node = NULL THEN [wk[w] EXCEPT !.pc = "finish"]
       ELSE IF data[wk[w].node] = target THEN [wk[w] EXCEPT !.pc = "write"]
       ELSE IF children[wk[w].node] = <<>> THEN [wk[w] EXCEPT !.pc = "finish"]
       ELSE IF wk[w].depth < PAR_CUTOFF_DEPTH
         THEN [wk[w] EXCEPT !.pc = "spawn_loop", !.i = 1, !.spawned = 0]
       ELSE [wk[w] EXCEPT !.pc = "seq_entry",
                          !.stack = << [n |-> wk[w].node, i |-> 0] >>])
  /\ UNCHANGED <<poolVars, created, treeVars, tasks, stop, found, inflight, resultNode, writers,
                 raced, callerVars, resultWrites, leftover>>

\* Line 123: resultNode = node, begun.
WriteResult(w) ==
  /\ wk[w].pc = "write"
  /\ BeginWrite(w)
  /\ wk' = Set(w, [wk[w] EXCEPT !.pc = "write_end"])
  /\ UNCHANGED <<poolVars, created, treeVars, tasks, stop, found, inflight, nodesVisited,
                 resultNode, callerVars, histVars>>

\* Line 123: resultNode = node, completed.
WriteResultEnd(w) ==
  /\ wk[w].pc = "write_end"
  /\ EndWrite(w, wk[w].node)
  /\ wk' = Set(w, [wk[w] EXCEPT !.pc = "store_found"])
  /\ UNCHANGED <<poolVars, created, treeVars, tasks, stop, found, inflight, nodesVisited,
                 callerVars, visits, lateVisits, leftover>>

\* Line 124: found.store(true); no notification follows it.
StoreFound(w) ==
  /\ wk[w].pc = "store_found"
  /\ found' = TRUE
  /\ wk' = Set(w, [wk[w] EXCEPT !.pc = "finish"])
  /\ UNCHANGED <<poolVars, created, treeVars, tasks, stop, inflight, nodesVisited, resultNode,
                 writers, raced, callerVars, histVars>>

\* Mutant of SpawnLoop: every child becomes a task, however many were spawned.
SpawnLoop_NoCap(w) ==
  /\ wk[w].pc = "spawn_loop"
  /\ wk' = Set(w,
       IF found THEN [wk[w] EXCEPT !.pc = "finish"]
       ELSE [wk[w] EXCEPT !.pc = "spawn_inc"])
  /\ UNCHANGED <<poolVars, created, treeVars, sharedVars, callerVars, histVars>>

\* Lines 130-139, one iteration of the loop over the children: stop when found,
\* make a task of the child while fewer than MAX_PAR_CHILDREN were spawned,
\* search it sequentially otherwise.
SpawnLoop(w) ==
  /\ wk[w].pc = "spawn_loop"
  /\ wk' = Set(w,
       IF found THEN [wk[w] EXCEPT !.pc = "finish"]
       ELSE IF wk[w].spawned < MAX_PAR_CHILDREN THEN [wk[w] EXCEPT !.pc = "spawn_inc"]
       ELSE [wk[w] EXCEPT !.pc = "seq_entry",
               !.stack = << [n |-> children[wk[w].node][wk[w].i], i |-> 0] >>])
  /\ UNCHANGED <<poolVars, created, treeVars, sharedVars, callerVars, histVars>>

\* Mutant of SpawnInc: the increment for the child task is missing.
SpawnInc_NoIncrement(w) ==
  /\ wk[w].pc = "spawn_inc"
  /\ inflight' = inflight
  /\ wk' = Set(w, [wk[w] EXCEPT !.pc = "spawn_push"])
  /\ UNCHANGED <<poolVars, created, treeVars, tasks, stop, found, nodesVisited, resultNode,
                 writers, raced, callerVars, histVars>>

\* Line 133: inflight.fetch_add(1) before the push.
SpawnInc(w) ==
  /\ wk[w].pc = "spawn_inc"
  /\ inflight' = inflight + 1
  /\ wk' = Set(w, [wk[w] EXCEPT !.pc = "spawn_push"])
  /\ UNCHANGED <<poolVars, created, treeVars, tasks, stop, found, nodesVisited, resultNode,
                 writers, raced, callerVars, histVars>>

\* Line 134, push_task lines 65-68: the task is appended with mx held.
SpawnPush(w) ==
  /\ wk[w].pc = "spawn_push"
  /\ MutexFree
  /\ tasks' = Append(tasks, Task(children[wk[w].node][wk[w].i], wk[w].depth + 1))
  /\ created' = Created(children[wk[w].node][wk[w].i], wk[w].depth + 1)
  /\ wk' = Set(w, [wk[w] EXCEPT !.pc = "spawn_notify"])
  /\ UNCHANGED <<poolVars, treeVars, stop, found, inflight, nodesVisited, resultNode,
                 writers, raced, callerVars, histVars>>

\* push_task line 69: cv.notify_one(); then ++spawned and the next child.
SpawnNotify(w) ==
  /\ wk[w].pc = "spawn_notify"
  /\ NotifyOne(Set(w, NextChild([wk[w] EXCEPT !.spawned = @ + 1])))
  /\ UNCHANGED <<poolVars, created, treeVars, sharedVars, root, target, retval, nworkers,
                 threadCount, numThreads, histVars>>

\* Line 139: after the sequential search of a child, stop when found.
SpawnAfter(w) ==
  /\ wk[w].pc = "spawn_after"
  /\ wk' = Set(w, IF found THEN [wk[w] EXCEPT !.pc = "finish"] ELSE NextChild(wk[w]))
  /\ UNCHANGED <<poolVars, created, treeVars, sharedVars, callerVars, histVars>>

\* ---------------------------------------------------------------- sequential_search
\* Line 74: return when found is set (the node is never null here).
SeqEntry(w) ==
  /\ wk[w].pc = "seq_entry"
  /\ wk' = Set(w, IF found THEN Returned(w) ELSE [wk[w] EXCEPT !.pc = "seq_visit"])
  /\ UNCHANGED <<poolVars, created, treeVars, sharedVars, callerVars, histVars>>

\* Lines 75-81: count the node, compare it, return from a leaf.
SeqVisit(w) ==
  /\ wk[w].pc = "seq_visit"
  /\ CountVisit(w, SeqTop(w).n)
  /\ wk' = Set(w,
       IF data[SeqTop(w).n] = target THEN [wk[w] EXCEPT !.pc = "seq_write"]
       ELSE IF children[SeqTop(w).n] = <<>> THEN Returned(w)
       ELSE [wk[w] EXCEPT !.pc = "seq_loop", !.stack[Len(wk[w].stack)].i = 1])
  /\ UNCHANGED <<poolVars, created, treeVars, tasks, stop, found, inflight, resultNode, writers,
                 raced, callerVars, resultWrites, leftover>>

\* Line 77: resultNode = node, begun.
SeqWrite(w) ==
  /\ wk[w].pc = "seq_write"
  /\ BeginWrite(w)
  /\ wk' = Set(w, [wk[w] EXCEPT !.pc = "seq_write_end"])
  /\ UNCHANGED <<poolVars, created, treeVars, tasks, stop, found, inflight, nodesVisited,
                 resultNode, callerVars, histVars>>

\* Line 77: resultNode = node, completed.
SeqWriteEnd(w) ==
  /\ wk[w].pc = "seq_write_end"
  /\ EndWrite(w, SeqTop(w).n)
  /\ wk' = Set(w, [wk[w] EXCEPT !.pc = "seq_store"])
  /\ UNCHANGED <<poolVars, created, treeVars, tasks, stop, found, inflight, nodesVisited,
                 callerVars, visits, lateVisits, leftover>>

\* Lines 78-79: found.store(true); return.
SeqStore(w) ==
  /\ wk[w].pc = "seq_store"
  /\ found' = TRUE
  /\ wk' = Set(w, Returned(w))
  /\ UNCHANGED <<poolVars, created, treeVars, tasks, stop, inflight, nodesVisited, resultNode,
                 writers, raced, callerVars, histVars>>

\* Lines 82-85, one iteration: return when found, else search the child.
SeqLoop(w) ==
  /\ wk[w].pc = "seq_loop"
  /\ wk' = Set(w,
       IF found THEN Returned(w)
       ELSE [wk[w] EXCEPT !.pc = "seq_entry",
               !.stack = Append(@, [n |-> children[SeqTop(w).n][SeqTop(w).i], i |-> 0])])
  /\ UNCHANGED <<poolVars, created, treeVars, sharedVars, callerVars, histVars>>

\* ---------------------------------------------------------------- search
\* search(root, target) is called on the engine; no call is in progress.
Call ==
  /\ callerPc \in {"idle", "returned"}
  /\ root' \in {NULL, 1}
  /\ target' \in Targets
  /\ retval' = NULL
  /\ callerPc' = "reset"
  /\ UNCHANGED <<poolVars, created, treeVars, sharedVars, nworkers, threadCount, numThreads, wk, histVars>>

\* Mutant of Reset: tasks.clear() is missing.
Reset_KeepQueue ==
  /\ callerPc = "reset"
  /\ found' = FALSE
  /\ stop' = FALSE
  /\ nodesVisited' = 0
  /\ resultNode' = NULL
  /\ inflight' = 0
  /\ tasks' = tasks
  /\ callerPc' = "check_root"
  /\ visits' = [n \in Nodes |-> 0]
  /\ resultWrites' = 0
  /\ lateVisits' = [w \in Workers |-> 0]
  /\ leftover' = (tasks # <<>> /\ inflight # 0 /\ found /\ stop)
  /\ created' = [n \in Nodes |-> <<>>]
  /\ UNCHANGED <<poolVars, treeVars, writers, raced, root, target, retval, nworkers,
                 threadCount, numThreads, wk>>

\* Lines 162-170: the reset of the per-run state (no worker thread exists).
Reset ==
  /\ callerPc = "reset"
  /\ found' = FALSE
  /\ stop' = FALSE
  /\ nodesVisited' = 0
  /\ resultNode' = NULL
  /\ inflight' = 0
  /\ tasks' = <<>>
  /\ callerPc' = "check_root"
  /\ visits' = [n \in Nodes |-> 0]
  /\ resultWrites' = 0
  /\ lateVisits' = [w \in Workers |-> 0]
  /\ leftover' = (tasks # <<>> /\ inflight # 0 /\ found /\ stop)
  /\ created' = [n \in Nodes |-> <<>>]
  /\ UNCHANGED <<poolVars, treeVars, writers, raced, root, target, retval, nworkers,
                 threadCount, numThreads, wk>>

\* Mutant of CheckRoot: the test for an empty root is missing.
CheckRoot_NoEarlyReturn ==
  /\ callerPc = "check_root"
  /\ callerPc' = "seed"
  /\ UNCHANGED <<poolVars, created, treeVars, sharedVars, root, target, retval, nworkers,
                 threadCount, numThreads, wk, histVars>>

\* Line 172: an empty root returns nullptr at once.
CheckRoot ==
  /\ callerPc = "check_root"
  /\ IF root = NULL
       THEN callerPc' = "returned" /\ retval' = NULL
       ELSE callerPc' = "seed" /\ retval' = retval
  /\ UNCHANGED <<poolVars, created, treeVars, sharedVars, root, target, nworkers, threadCount, numThreads, wk,
                 histVars>>

\* Line 175: inflight.fetch_add(1) for the root task.
SeedInc ==
  /\ callerPc = "seed"
  /\ inflight' = inflight + 1
  /\ callerPc' = "seed_push"
  /\ leftover' = FALSE
  /\ UNCHANGED <<poolVars, created, treeVars, tasks, stop, found, nodesVisited, resultNode,
                 writers, raced, root, target, retval, nworkers, threadCount, numThreads,
                 wk, visits, resultWrites, lateVisits>>

\* Line 176: push_task(Task{root, 0}); nobody waits on cv yet.
SeedPush ==
  /\ callerPc = "seed_push"
  /\ tasks' = Append(tasks, Task(root, 0))
  /\ created' = Created(root, 0)
  /\ callerPc' = "start"
  /\ UNCHANGED <<poolVars, treeVars, stop, found, inflight, nodesVisited, resultNode,
                 writers, raced, root, target, retval, nworkers, threadCount, numThreads,
                 wk, histVars>>

\* Lines 179-185: the worker threads are created one after the other; each
\* runs from its creation on.
StartWorker ==
  /\ callerPc = "start"
  /\ nworkers' = nworkers + 1
  /\ wk' = Set(nworkers + 1, At("top"))
  /\ callerPc' = IF nworkers + 1 = threadCount THEN "wait" ELSE "start"
  /\ UNCHANGED <<poolVars, created, treeVars, sharedVars, root, target, retval, threadCount, numThreads, histVars>>

\* Mutant of CallerPred: the caller stops waiting while one task is in flight.
CallerPred_Early == found \/ inflight <= 1

\* The predicate of the wait at lines 190-192.
CallerPred == found \/ inflight = 0

\* Lines 189-192 with mx held: the predicate is evaluated.
CallerWait ==
  /\ callerPc = "wait"
  /\ MutexFree
  /\ callerPc' = IF CallerPred THEN "set_stop" ELSE "park"
  /\ UNCHANGED <<poolVars, created, treeVars, sharedVars, root, target, retval, nworkers,
                 threadCount, numThreads, wk, histVars>>

\* cv.wait releases mx and blocks (the predicate was false when evaluated).
CallerBlock ==
  /\ callerPc = "park"
  /\ callerPc' = "blocked"
  /\ UNCHANGED <<poolVars, created, treeVars, sharedVars, root, target, retval, nworkers,
                 threadCount, numThreads, wk, histVars>>

\* Line 196: stop.store(true).
SetStop ==
  /\ callerPc = "set_stop"
  /\ stop' = TRUE
  /\ callerPc' = "notify_stop"
  /\ UNCHANGED <<poolVars, created, treeVars, tasks, found, inflight, nodesVisited, resultNode,
                 writers, raced, root, target, retval, nworkers, threadCount, numThreads,
                 wk, histVars>>

\* Line 197: cv.notify_all().
NotifyStop ==
  /\ callerPc = "notify_stop"
  /\ wk' = [w \in Workers |-> IF wk[w].pc = "blocked" THEN At("lock") ELSE wk[w]]
  /\ callerPc' = "join"
  /\ UNCHANGED <<poolVars, created, treeVars, sharedVars, root, target, retval, nworkers,
                 threadCount, numThreads, histVars>>

\* Mutant of Join: search returns without waiting for the worker threads.
Join_NoWait ==
  /\ callerPc = "join"
  /\ wk' = wk
  /\ nworkers' = 0
  /\ retval' = resultNode
  /\ callerPc' = "returned"
  /\ UNCHANGED <<poolVars, created, treeVars, sharedVars, root, target, threadCount, numThreads, histVars>>

\* Lines 198-201: every worker thread is joined, workers is cleared and
\* resultNode is returned.
Join ==
  /\ callerPc = "join"
  /\ \A w \in 1..nworkers : wk[w].pc = "done"
  /\ wk' = [w \in Workers |-> NoWorker]
  /\ nworkers' = 0
  /\ retval' = resultNode
  /\ callerPc' = "returned"
  /\ UNCHANGED <<poolVars, created, treeVars, sharedVars, root, target, threadCount, numThreads, histVars>>

\* A thread blocked in cv.wait may wake without a notification.
SpuriousWakeup ==
  /\ \E t \in Blocked(wk) :
       /\ wk' = Woken(wk, t)
       /\ callerPc' = IF t = 0 THEN "wait" ELSE callerPc
  /\ UNCHANGED <<poolVars, created, treeVars, sharedVars, root, target, retval, nworkers,
                 threadCount, numThreads, histVars>>

\* ---------------------------------------------------------------- specification
WorkerStep(w) ==
  \/ LoopTop(w) \/ WaitOrPop(w) \/ WorkerBlock(w)
  \/ ExecCheck(w) \/ TaskDone(w) \/ NotifyDone(w) \/ Visit(w)
  \/ WriteResult(w) \/ WriteResultEnd(w) \/ StoreFound(w)
  \/ SpawnLoop(w) \/ SpawnInc(w) \/ SpawnPush(w) \/ SpawnNotify(w) \/ SpawnAfter(w)
  \/ SeqEntry(w) \/ SeqVisit(w) \/ SeqWrite(w) \/ SeqWriteEnd(w) \/ SeqStore(w)
  \/ SeqLoop(w)

SearchStep ==
  \/ Reset \/ CheckRoot \/ SeedInc \/ SeedPush \/ StartWorker
  \/ CallerWait \/ CallerBlock \/ SetStop \/ NotifyStop \/ Join

Next ==
  \/ Call
  \/ SearchStep
  \/ \E w \in Workers : WorkerStep(w)
  \/ SpuriousWakeup

Spec == Init /\ [][Next]_vars

\* Every thread that can take a step eventually takes one; a call of search
\* is not owed by anyone, and neither is a spurious wake-up.
FairSpec ==
  /\ Spec
  /\ WF_vars(SearchStep)
  /\ \A w \in Workers : WF_vars(WorkerStep(w))

\* ---------------------------------------------------------------- ThreadPool
(***************************************************************************)
(* Model of ThreadPool<T> (src/include/threadpool.hpp), used on its own.   *)
(* The pool has been constructed with maxThreads >= 1 threads; one thread  *)
(* (the producer) calls enqueue() with the jobs 1, 2, ... in turn, another *)
(* (the owner) destroys the pool at a moment of its choice.  A critical    *)
(* section of queueMutex is one step: inside it the code reads the queue   *)
(* and stop, which only goes from false to true.  As for the engine, the   *)
(* predicate of condition.wait is evaluated in one step and the thread     *)
(* blocks in the next.                                                     *)
(***************************************************************************)
\* Lines 27-31: the pool after ThreadPool(n), n in 1..MaxPoolThreads, next to
\* an engine that is never called.
PoolInit ==
  /\ EngineNew({1}, {1})
  /\ maxThreads \in 1..MaxPoolThreads
  /\ poolTasks = <<>>
  /\ poolStop = FALSE
  /\ available_threads = maxThreads
  /\ activeTasks = 0
  /\ pw = [w \in PoolWorkers |->
             IF w <= maxThreads THEN [NoPoolWorker EXCEPT !.pc = "lock"] ELSE NoPoolWorker]
  /\ producer = [pc |-> "idle", job |-> NULL]
  /\ ownerPc = "alive"
  /\ accepted = <<>>
  /\ rejected = {}
  /\ dequeued = <<>>
  /\ executed = [j \in Jobs |-> 0]

PoolSet(w, rec) == [pw EXCEPT ![w] = rec]

\* Pool threads blocked inside condition.wait.
PoolBlocked == {w \in PoolWorkers : pw[w].pc = "blocked"}

\* queueMutex is free: no pool thread is between the evaluation of its wait
\* predicate and its blocking.
PoolMutexFree == \A w \in PoolWorkers : pw[w].pc # "park"

\* The predicate of the wait at lines 39-41.
PoolPred == poolStop \/ poolTasks # <<>>

\* Mutant of PoolWaitOrPop: a thread that sees stop leaves at once, whatever
\* the queue holds.
PoolWaitOrPop_ExitOnStop(w) ==
  /\ pw[w].pc = "lock"
  /\ PoolMutexFree
  /\ IF ~PoolPred
       THEN /\ pw' = PoolSet(w, [pw[w] EXCEPT !.pc = "park"])
            /\ UNCHANGED <<poolTasks, dequeued>>
       ELSE IF poolStop
         THEN /\ pw' = PoolSet(w, [pw[w] EXCEPT !.pc = "exited"])
              /\ UNCHANGED <<poolTasks, dequeued>>
         ELSE /\ pw' = PoolSet(w, [pc |-> "dec_avail", task |-> Head(poolTasks)])
              /\ poolTasks' = Tail(poolTasks)
              /\ dequeued' = Append(dequeued, Head(poolTasks))
  /\ UNCHANGED <<engineVars, poolStop, available_threads, maxThreads, activeTasks,
                 producer, ownerPc, accepted, rejected, executed>>

\* Lines 38-51 with queueMutex held: the predicate is evaluated; if it holds,
\* the thread returns when stop is set and the queue is empty, and otherwise
\* takes the task at the front of the queue.
PoolWaitOrPop(w) ==
  /\ pw[w].pc = "lock"
  /\ PoolMutexFree
  /\ IF ~PoolPred
       THEN /\ pw' = PoolSet(w, [pw[w] EXCEPT !.pc = "park"])
            /\ UNCHANGED <<poolTasks, dequeued>>
       ELSE IF poolStop /\ poolTasks = <<>>
         THEN /\ pw' = PoolSet(w, [pw[w] EXCEPT !.pc = "exited"])
              /\ UNCHANGED <<poolTasks, dequeued>>
         ELSE /\ pw' = PoolSet(w, [pc |-> "dec_avail", task |-> Head(poolTasks)])
              /\ poolTasks' = Tail(poolTasks)
              /\ dequeued' = Append(dequeued, Head(poolTasks))
  /\ UNCHANGED <<engineVars, poolStop, available_threads, maxThreads, activeTasks,
                 producer, ownerPc, accepted, rejected, executed>>

\* Lines 39-41: the predicate was false; the thread releases queueMutex and blocks.
PoolBlock(w) ==
  /\ pw[w].pc = "park"
  /\ pw' = PoolSet(w, [pw[w] EXCEPT !.pc = "blocked"])
  /\ UNCHANGED <<engineVars, poolTasks, poolStop, available_threads, maxThreads,
                 activeTasks, producer, ownerPc, accepted, rejected, dequeued, executed>>

\* Line 54: available_threads--.
PoolDecAvail(w) ==
  /\ pw[w].pc = "dec_avail"
  /\ available_threads' = available_threads - 1
  /\ pw' = PoolSet(w, [pw[w] EXCEPT !.pc = "run"])
  /\ UNCHANGED <<engineVars, poolTasks, poolStop, maxThreads, activeTasks, producer,
                 ownerPc, accepted, rejected, dequeued, executed>>

\* Line 55: task().
PoolRun(w) ==
  /\ pw[w].pc = "run"
  /\ executed' = [executed EXCEPT ![pw[w].task] = @ + 1]
  /\ pw' = PoolSet(w, [pw[w] EXCEPT !.pc = "dec_active"])
  /\ UNCHANGED <<engineVars, poolTasks, poolStop, available_threads, maxThreads,
                 activeTasks, producer, ownerPc, accepted, rejected, dequeued>>

\* Mutant of PoolDecActive: the completion of the task is not recorded.
PoolDecActive_NoDecrement(w) ==
  /\ pw[w].pc = "dec_active"
  /\ activeTasks' = activeTasks
  /\ pw' = PoolSet(w, [pw[w] EXCEPT !.pc = "inc_avail"])
  /\ UNCHANGED <<engineVars, poolTasks, poolStop, available_threads, maxThreads,
                 producer, ownerPc, accepted, rejected, dequeued, executed>>

\* Line 56: activeTasks--.
PoolDecActive(w) ==
  /\ pw[w].pc = "dec_active"
  /\ activeTasks' = activeTasks - 1
  /\ pw' = PoolSet(w, [pw[w] EXCEPT !.pc = "inc_avail"])
  /\ UNCHANGED <<engineVars, poolTasks, poolStop, available_threads, maxThreads,
                 producer, ownerPc, accepted, rejected, dequeued, executed>>

\* Line 57: available_threads++; the task is destroyed and the loop restarts.
PoolIncAvail(w) ==
  /\ pw[w].pc = "inc_avail"
  /\ available_threads' = available_threads + 1
  /\ pw' = PoolSet(w, [NoPoolWorker EXCEPT !.pc = "lock"])
  /\ UNCHANGED <<engineVars, poolTasks, poolStop, maxThreads, activeTasks, producer,
                 ownerPc, accepted, rejected, dequeued, executed>>

\* A pool thread blocked in condition.wait may wake without a notification.
PoolSpuriousWakeup ==
  /\ \E w \in PoolBlocked : pw' = PoolSet(w, [pw[w] EXCEPT !.pc = "lock"])
  /\ UNCHANGED <<engineVars, poolTasks, poolStop, available_threads, maxThreads,
                 activeTasks, producer, ownerPc, accepted, rejected, dequeued, executed>>

\* enqueue(f) is called with the next job; the pool object still exists.
EnqueueCall ==
  /\ producer.pc \in {"idle", "threw"}
  /\ ownerPc # "destroyed"
  /\ producer.job < MaxJobs
  /\ producer' = [pc |-> "enqueue", job |-> producer.job + 1]
  /\ UNCHANGED <<engineVars, poolTasks, poolStop, available_threads, maxThreads,
                 activeTasks, pw, ownerPc, accepted, rejected, dequeued, executed>>

\* Mutant of Enqueue: the test of stop is missing.
Enqueue_NoStopCheck ==
  /\ producer.pc = "enqueue"
  /\ PoolMutexFree
  /\ poolTasks' = Append(poolTasks, producer.job)
  /\ activeTasks' = activeTasks + 1
  /\ accepted' = Append(accepted, producer.job)
  /\ producer' = [producer EXCEPT !.pc = "notify"]
  /\ UNCHANGED <<engineVars, poolStop, available_threads, maxThreads, pw, ownerPc,
                 rejected, dequeued, executed>>

\* Lines 93-101 with queueMutex held: std::runtime_error when stop is set,
\* otherwise the job is appended and activeTasks incremented.
Enqueue ==
  /\ producer.pc = "enqueue"
  /\ PoolMutexFree
  /\ IF poolStop
       THEN /\ producer' = [producer EXCEPT !.pc = "threw"]
            /\ rejected' = rejected \cup {producer.job}
            /\ UNCHANGED <<poolTasks, activeTasks, accepted>>
       ELSE /\ poolTasks' = Append(poolTasks, producer.job)
            /\ activeTasks' = activeTasks + 1
            /\ accepted' = Append(accepted, producer.job)
            /\ producer' = [producer EXCEPT !.pc = "notify"]
            /\ UNCHANGED rejected
  /\ UNCHANGED <<engineVars, poolStop, available_threads, maxThreads, pw, ownerPc,
                 dequeued, executed>>

\* Line 102: condition.notify_one(), after queueMutex is released.
EnqueueNotify ==
  /\ producer.pc = "notify"
  /\ IF PoolBlocked = {}
       THEN pw' = pw
       ELSE \E w \in PoolBlocked : pw' = PoolSet(w, [pw[w] EXCEPT !.pc = "lock"])
  /\ producer' = [producer EXCEPT !.pc = "idle"]
  /\ UNCHANGED <<engineVars, poolTasks, poolStop, available_threads, maxThreads,
                 activeTasks, ownerPc, accepted, rejected, dequeued, executed>>

\* Line 66: stop = true, without queueMutex.
PoolSetStop ==
  /\ ownerPc = "alive"
  /\ poolStop' = TRUE
  /\ ownerPc' = "notify"
  /\ UNCHANGED <<engineVars, poolTasks, available_threads, maxThreads, activeTasks,
                 pw, producer, accepted, rejected, dequeued, executed>>

\* Line 67: condition.notify_all().
PoolNotifyAll ==
  /\ ownerPc = "notify"
  /\ pw' = [w \in PoolWorkers |->
              IF pw[w].pc = "blocked" THEN [pw[w] EXCEPT !.pc = "lock"] ELSE pw[w]]
  /\ ownerPc' = "join"
  /\ UNCHANGED <<engineVars, poolTasks, poolStop, available_threads, maxThreads,
                 activeTasks, producer, accepted, rejected, dequeued, executed>>

\* Lines 68-72: every pool thread is joined.
PoolJoin ==
  /\ ownerPc = "join"
  /\ \A w \in 1..maxThreads : pw[w].pc = "exited"
  /\ ownerPc' = "destroyed"
  /\ UNCHANGED <<engineVars, poolTasks, poolStop, available_threads, maxThreads,
                 activeTasks, pw, producer, accepted, rejected, dequeued, executed>>

PoolWorkerStep(w) ==
  \/ PoolWaitOrPop(w) \/ PoolBlock(w) \/ PoolDecAvail(w) \/ PoolRun(w)
  \/ PoolDecActive(w) \/ PoolIncAvail(w)

\* The steps of an enqueue() call that has begun.
ProducerStep == Enqueue \/ EnqueueNotify

\* The steps of ~ThreadPool() after stop is set.
OwnerStep == PoolNotifyAll \/ PoolJoin

PoolNext ==
  \/ EnqueueCall
  \/ ProducerStep
  \/ PoolSetStop
  \/ OwnerStep
  \/ \E w \in PoolWorkers : PoolWorkerStep(w)
  \/ PoolSpuriousWakeup

PoolSpec == PoolInit /\ [][PoolNext]_vars

\* Every thread that can take a step eventually takes one; a call of enqueue,
\* the start of the destructor and a spurious wake-up are owed by nobody.
PoolFairSpec ==
  /\ PoolSpec
  /\ WF_vars(ProducerStep)
  /\ WF_vars(OwnerStep)
  /\ \A w \in PoolWorkers : WF_vars(PoolWorkerStep(w))

\* ---------------------------------------------------------------- claims
\* The nodes of the tree whose value equals the target of the current call.
Matching == {n \in Nodes : data[n] = target}

\* search() has returned from a call on the tree.
ReturnedFromTree == callerPc = "returned" /\ root # NULL

\* The caller has left the wait of lines 189-193 in a call on the tree.
Released == callerPc \in {"set_stop", "notify_stop", "join", "returned"} /\ root # NULL

\* C1: on a tree with exactly one node equal to the target, a search that
\* returns returns that node, for every thread count and interleaving.
C1_UniqueMatchReturned ==
  (ReturnedFromTree /\ Cardinality(Matching) = 1) => retval \in Matching

C1_Witness ==
  /\ ReturnedFromTree
  /\ threadCount >= 2
  /\ Matching = {5}
  /\ retval = 5

\* C2: on a tree with no node equal to the target, a search that returns
\* returns nullptr with found false, and the caller leaves its wait only
\* after every node has been visited.
C2_AbsentReturnsEmpty ==
  /\ (ReturnedFromTree /\ Matching = {}) => (retval = NULL /\ ~found)
  /\ (Released /\ Matching = {}) => \A n \in Nodes : visits[n] >= 1

C2_Witness ==
  /\ ReturnedFromTree
  /\ Matching = {}
  /\ threadCount >= 2
  /\ retval = NULL
  /\ \A n \in Nodes : visits[n] >= 1

\* C3: under fair scheduling every search call that reaches its wait returns.
C3_SearchReturns == (callerPc = "wait") ~> (callerPc = "returned")

\* C4: on a tree with two or more nodes equal to the target, a search that
\* returns returns a node whose value equals the target.
C4_MultiMatchReturned ==
  (ReturnedFromTree /\ Cardinality(Matching) >= 2) => retval \in Matching

\* C5: when the target is absent, nodesVisited equals the number of nodes of
\* the tree when search returns.
C5_ExactCount ==
  (ReturnedFromTree /\ Matching = {}) => nodesVisited = Cardinality(Nodes)

\* C6: during and after a search on a tree with exactly one matching node,
\* nodesVisited never exceeds the number of nodes of the tree.
C6_CountBounded ==
  (callerPc \notin {"idle", "reset"} /\ root # NULL /\ Cardinality(Matching) = 1)
    => nodesVisited <= Cardinality(Nodes)

\* C7: within one run resultNode is written at most once.
C7_SingleWriter == resultWrites <= 1

\* The per-run state of an engine on which no search has run.
Fresh ==
  /\ ~found /\ ~stop
  /\ nodesVisited = 0
  /\ resultNode = NULL
  /\ inflight = 0
  /\ tasks = <<>>
  /\ nworkers = 0
  /\ wk = [w \in Workers |-> NoWorker]
  /\ writers = {} /\ ~raced

\* C8: every call starts, after its reset, from the state of a fresh engine,
\* whatever the earlier calls left behind.
C8_ResetRestoresFresh == callerPc = "check_root" => Fresh

C8_Witness == callerPc = "check_root" /\ leftover /\ root # NULL

\* C9: once found is true, every worker counts at most one more node, and at
\* most threadCount - 1 nodes are counted in all.
C9_BoundedLateVisits ==
  /\ \A w \in Workers : lateVisits[w] <= 1
  /\ Cardinality({w \in Workers : lateVisits[w] >= 1}) <= threadCount - 1

C9_Witness == \E w \in Workers : lateVisits[w] = 1 /\ wk[w].pc = "seq_loop"

\* C10: a call with an empty root returns nullptr in its next step, with no
\* task pushed, inflight 0, no worker started, nodesVisited 0 and found false.
C10_EmptyRoot ==
  [][(callerPc = "check_root" /\ root = NULL)
       => /\ callerPc' = "returned"
          /\ retval' = NULL
          /\ tasks' = <<>>
          /\ inflight' = 0
          /\ nworkers' = 0
          /\ wk' = [w \in Workers |-> NoWorker]
          /\ nodesVisited' = 0
          /\ ~found']_vars

C10_Witness == callerPc = "returned" /\ root = NULL /\ leftover /\ retval = NULL

\* C11 (as claimed): no engine exists that was constructed from the argument
\* 0, and none runs with a thread count other than the one it was given.
C11_ZeroRejected ==
  /\ numThreads # 0
  /\ threadCount = numThreads

\* C12: when search has returned from a run, no worker thread of that run is
\* left (none is running, none is in the middle of writing resultNode), and
\* nodesVisited, found and resultNode keep their values for as long as the
\* call stays returned.
C12_WorkersGoneAtReturn ==
  /\ [](callerPc = "returned" =>
          /\ \A w \in Workers : wk[w].pc = "none"
          /\ nworkers = 0
          /\ writers = {})
  /\ [][callerPc = "returned" => UNCHANGED <<nodesVisited, found, resultNode>>]_vars

\* A run with two workers has returned early (a match, tasks still queued).
C12_Witness ==
  /\ callerPc = "returned"
  /\ root # NULL
  /\ threadCount > 1
  /\ found
  /\ tasks # <<>>

\* C13 (as claimed): when search has returned from a run, the task queue is
\* empty, whether the run ended on a match or on exhaustion.
C13_QueueEmptyAtReturn == (callerPc = "returned" /\ root # NULL) => tasks = <<>>

\* C14: a call of enqueue that takes queueMutex while stop is set throws and
\* changes nothing of the pool (queue, counters, threads); one that takes it
\* while stop is not set appends its job and increments activeTasks; a job whose
\* enqueue threw is never in the queue, never held by a thread, never executed.
C14_EnqueueAfterStop ==
  /\ [][(producer.pc = "enqueue" /\ producer'.pc # "enqueue") =>
          IF poolStop
            THEN /\ producer'.pc = "threw"
                 /\ UNCHANGED <<poolTasks, activeTasks, available_threads, pw,
                                poolStop, accepted, dequeued, executed>>
            ELSE /\ producer'.pc = "notify"
                 /\ poolTasks' = Append(poolTasks, producer.job)
                 /\ activeTasks' = activeTasks + 1
                 /\ rejected' = rejected]_vars
  /\ [](\A j \in rejected :
          /\ executed[j] = 0
          /\ \A i \in DOMAIN poolTasks : poolTasks[i] # j
          /\ \A i \in DOMAIN dequeued : dequeued[i] # j
          /\ \A w \in PoolWorkers : pw[w].task # j)

\* One enqueue has succeeded and a later one has thrown.
C14_Witness ==
  /\ producer.pc = "threw"
  /\ accepted # <<>>
  /\ rejected # {}

\* C15 (as claimed): once the destructor has set stop, it completes: every
\* pool thread exits and every join returns.
C15_ShutdownCompletes == (ownerPc = "notify") ~> (ownerPc = "destroyed")

\* dequeued is an initial part of accepted.
DequeuedInOrder ==
  /\ Len(dequeued) <= Len(accepted)
  /\ \A i \in DOMAIN dequeued : dequeued[i] = accepted[i]

Holding ==
  {w \in Workers : wk[w].pc \notin {"none", "top", "lock", "park", "blocked",
                                    "notify_done", "done"}}

\* Increments of inflight whose push_task has not yet appended the task.
PendingPush ==
  Cardinality({w \in Workers : wk[w].pc = "spawn_push"})
    + (IF callerPc = "seed_push" THEN 1 ELSE 0)

\* The root task of the current call has been counted.
Seeded ==
  /\ root # NULL
  /\ callerPc \in {"seed_push", "start", "wait", "park", "blocked", "set_stop",
                   "notify_stop", "join", "returned"}

CallerWaiting == callerPc \in {"wait", "park", "blocked"}

\* C18 (as claimed): whenever found is true or inflight is 0 while the caller
\* is in, or about to enter, its wait, the caller eventually leaves the wait.
C18_SignalNotMissed ==
  (CallerWaiting /\ (found \/ inflight = 0)) ~> ~CallerWaiting

\* C19 (as claimed): once the caller has set stop and issued notify_all, every
\* worker thread exits and the joins return.
C19_WorkersExitAfterStop == (callerPc = "join") ~> (callerPc = "returned")

\* The parent of a node other than the root.
Parent(n) == CHOOSE p \in Nodes : \E i \in DOMAIN children[p] : children[p][i] = n

RECURSIVE Depth(_)
\* The number of edges between the root (node 1) and n.
Depth(n) == IF n = 1 THEN 0 ELSE 1 + Depth(Parent(n))

RECURSIVE TasksAtDepth(_, _)
\* The number of tasks pushed in this run with depth d for the nodes 1..k.
TasksAtDepth(k, d) ==
  IF k = 0 THEN 0
  ELSE IF created[k] = <<>> THEN TasksAtDepth(k - 1, d)
  ELSE Cardinality({i \in DOMAIN created[k] : created[k][i] = d}) + TasksAtDepth(k - 1, d)

RECURSIVE TasksCreated(_)
\* The number of tasks pushed in this run for the nodes 1..k.
TasksCreated(k) == IF k = 0 THEN 0 ELSE Len(created[k]) + TasksCreated(k - 1)

RECURSIVE Pow(_, _)
Pow(b, e) == IF e = 0 THEN 1 ELSE b * Pow(b, e - 1)

RECURSIVE GeometricSum(_, _)
\* b^0 + b^1 + ... + b^e
GeometricSum(b, e) == IF e = 0 THEN 1 ELSE Pow(b, e) + GeometricSum(b, e - 1)

\* C20: every task pushed in a run carries the true depth of its node, at most
\* PAR_CUTOFF_DEPTH; the children of a node that became tasks are its first
\* ones, in order, and at most MAX_PAR_CHILDREN; so at most MAX_PAR_CHILDREN^d
\* tasks of depth d are pushed, and at most the sum of these for
\* d = 0..PAR_CUTOFF_DEPTH in all.
C20_BoundedFanOut ==
  /\ \A n \in Nodes : \A i \in DOMAIN created[n] :
       /\ created[n][i] = Depth(n)
       /\ created[n][i] <= PAR_CUTOFF_DEPTH
  /\ \A p \in Nodes : \A i \in DOMAIN children[p] :
       created[children[p][i]] # <<>> =>
         /\ i <= MAX_PAR_CHILDREN
         /\ \A j \in 1..(i - 1) : created[children[p][j]] # <<>>
  /\ \A d \in 0..PAR_CUTOFF_DEPTH :
       TasksAtDepth(Len(children), d) <= Pow(MAX_PAR_CHILDREN, d)
  /\ TasksCreated(Len(children)) <= GeometricSum(MAX_PAR_CHILDREN, PAR_CUTOFF_DEPTH)

\* The root has three children: the first two became tasks, the third was
\* searched by the worker that processed the root task.
C20_Witness ==
  /\ Len(children[1]) > MAX_PAR_CHILDREN
  /\ created[children[1][1]] # <<>>
  /\ created[children[1][2]] # <<>>
  /\ created[children[1][3]] = <<>>
  /\ visits[children[1][3]] >= 1

\* C21: in a run no node is the subject of more than one task (a task is pushed
\* at most once per node), a queued task is held by no worker, no task is
\* queued twice and no two workers hold the task of the same node.
C21_TaskConsumedOnce ==
  /\ \A n \in Nodes : Len(created[n]) <= 1
  /\ \A i, j \in DOMAIN tasks : tasks[i].node = tasks[j].node => i = j
  /\ \A w \in Holding :
       /\ \A i \in DOMAIN tasks : tasks[i].node # wk[w].node
       /\ \A v \in Holding : wk[v].node = wk[w].node => v = w

\* Two workers hold tasks (of different nodes) while a third task is queued.
C21_Witness ==
  /\ Cardinality(Holding) = 2
  /\ tasks # <<>>

\* C22: no step of search, worker_loop or sequential_search writes a node's
\* value, child list or visited flag.
C22_TreeUnchanged ==
  [][children' = children /\ data' = data /\ visited' = visited]_vars

\* An exhausted run has returned: every node was visited and every visited
\* flag is still false.
C22_Witness ==
  /\ callerPc = "returned"
  /\ root # NULL
  /\ ~found
  /\ \A n \in Nodes : visits[n] >= 1 /\ ~visited[n]

\* C23 (as claimed): when search has returned from a run, the returned node is
\* non-empty exactly when found is true; and at every point of a run at which
\* found is true, resultNode refers to a node whose value equals the target.
C23_ResultAndFlagAgree ==
  /\ (callerPc = "returned" /\ root # NULL) => (retval # NULL <=> found)
  /\ (found /\ callerPc # "reset") =>
       /\ resultNode \in Nodes
       /\ data[resultNode] = target

\* Pool threads that have taken a task from the queue (lines 48-49) and whose
\* task() has not yet returned (line 55).
PoolTaken == {w \in PoolWorkers : pw[w].pc \in {"dec_avail", "run"}}

\* Pool threads between available_threads-- (line 54) and available_threads++
\* (line 57).
PoolCounted == {w \in PoolWorkers : pw[w].pc \in {"run", "dec_active", "inc_avail"}}

\* Pool threads that have taken a task and not yet executed activeTasks--
\* (line 56).
PoolUnrecorded == {w \in PoolWorkers : pw[w].pc \in {"dec_avail", "run", "dec_active"}}

\* activeTasks is the number of queued jobs plus the number of dequeued jobs
\* whose completion is not yet recorded, and 0 when there is none of either.
ActiveTasksExact ==
  /\ activeTasks >= 0
  /\ activeTasks = Len(poolTasks) + Cardinality(PoolUnrecorded)
  /\ (poolTasks = <<>> /\ PoolUnrecorded = {}) => activeTasks = 0

\* C24 (as claimed): 0 <= available_threads <= maxThreads, maxThreads -
\* available_threads is the number of pool threads between taking a job and
\* finishing it, and activeTasks counts the queued and the unrecorded jobs.
C24_CountersExact ==
  /\ 0 <= available_threads /\ available_threads <= maxThreads
  /\ maxThreads - available_threads = Cardinality(PoolTaken)
  /\ ActiveTasksExact

\* C24 (amended): 0 <= available_threads <= maxThreads, maxThreads -
\* available_threads is the number of pool threads between their
\* available_threads-- and their available_threads++ (a thread that has taken
\* a job is counted one step later, one that has finished it is counted until
\* two steps later), and activeTasks counts the queued and the unrecorded jobs.
C24_CountersLag ==
  /\ 0 <= available_threads /\ available_threads <= maxThreads
  /\ maxThreads - available_threads = Cardinality(PoolCounted)
  /\ ActiveTasksExact

\* Every pool thread has taken a job and none is counted as busy yet.
C24_Witness ==
  /\ maxThreads > 1
  /\ \A w \in 1..maxThreads : pw[w].pc = "dec_avail"
  /\ available_threads = maxThreads

====
